---- MODULE Spec2Model ----
(***************************************************************************)
(* Model of src/modules/hyperparams/optimisers.py: the Study Adapter       *)
(* (create_study, optimize_model), the Orchestrator                        *)
(* (optimize_hyperparameters) running four tasks on a thread pool, and the *)
(* Base-Model Optimizer (optimize_hyperparameters_base).                   *)
(***************************************************************************)
EXTENDS Integers, Sequences, FiniteSets, TLC

\* ---------------------------------------------------------------- bounds
\* bound on hyperparameter_rounds (n_trials) for the four pooled studies
MaxTrials == 1
\* bound on the number of successive optimize_hyperparameters calls
MaxCalls == 2
\* bound on n_trials of the base study
MaxBaseTrials == 3
\* objective scores a base trial can report are 1..MaxScore
MaxScore == 3

\* ---------------------------------------------------------------- values
\* models_to_optimize, in submission order (lines 86-91)
models_to_optimize == <<"xgb", "rf", "stacking", "reg_stacking">>
\* the literal list of the second pass (line 111)
expected_names == <<"xgb", "rf", "stacking", "reg_stacking">>
Models == {"xgb", "rf", "stacking", "reg_stacking"}

\* A Python value as the orchestrator sees it.  kind "dict" is a mapping;
\* owner/ver say which model's search and which call produced it (ver 0 is
\* a record that was in the store before the first call).
Dict(m, v) == [kind |-> "dict", owner |-> m, ver |-> v]
EmptyDict == [kind |-> "dict", owner |-> "-", ver |-> 0]
None == [kind |-> "None", owner |-> "-", ver |-> 0]
Str == [kind |-> "str", owner |-> "-", ver |-> 0]
\* "name not in params"
Missing == [kind |-> "missing", owner |-> "-", ver |-> 0]

\* isinstance(v, dict)
IsDict(v) == v.kind = "dict"

\* Parameter Store interface (modules.hyperparams.save_and_load)
load_hyperparameters(st, name) == st[name]
save_hyperparameters(st, params, name) == [st EXCEPT ![name] = params]

VARIABLES
  store,      \* Parameter Store: model identifier -> record, None if absent
  store0,     \* store content when the current call started
  call,       \* number of the current optimize_hyperparameters call
  pc,         \* orchestrator position: pool, merge, second, returned, raised
  tpc,        \* per task: submitted, cached, running, done
  study,      \* per task: a study object was created in this call
  trials,     \* per task: objective invocations (trials) in this call
  outcome,    \* per task: none, Cached, Completed, TimedOut, Failed
  result,     \* per task: <<name, best_params>> returned by optimize_model
  completed,  \* pool: models in the order their futures finished
  results,    \* list(executor.map(...)) once the pool is joined
  idx,        \* loop index of the merge loop / the second pass
  params,     \* the params dict of optimize_hyperparameters
  logs,       \* {<<level, name>>} logged in this call
  ret,        \* the returned tuple (xgb, rf, stacking, reg_stacking)
  prev,       \* what the previous call returned and whether its store was populated
  bpc,        \* base study: NotStarted, Running, Completed, Interrupted, Failed, Returned, Raised
  btrials,    \* scores of the completed trials of the base study
  bret,       \* value returned by optimize_hyperparameters_base
  cstore,     \* two concurrent calls: the Parameter Store they share
  cpc,        \* per concurrent call: idle, pool, merge, second, returned, raised
  ctpc,       \* per concurrent call and task: submitted, cached, running, done
  cresult,    \* per concurrent call and task: <<name, best_params>>
  cresults,   \* per concurrent call: list(executor.map(...))
  cidx,       \* per concurrent call: loop index
  cparams,    \* per concurrent call: the params dict
  cret,       \* per concurrent call: the returned tuple
  cseen       \* per concurrent call and model: the values it read from the store

ovars == <<store, store0, call, pc, tpc, study, trials, outcome, result,
           completed, results, idx, params, logs, ret, prev>>
bvars == <<bpc, btrials, bret>>
cvars == <<cstore, cpc, ctpc, cresult, cresults, cidx, cparams, cret, cseen>>
vars == <<store, store0, call, pc, tpc, study, trials, outcome, result,
          completed, results, idx, params, logs, ret, prev, bpc, btrials, bret,
          cstore, cpc, ctpc, cresult, cresults, cidx, cparams, cret, cseen>>

\* the two concurrent calls of optimize_hyperparameters
Calls == {1, 2}

NoRet == <<>>
NoPrev == [ret |-> NoRet, populated |-> FALSE]

\* ------------------------------------------------------- Study Adapter
\* create_study testing "if not saved_params": an empty record counts as absent
create_study_falsy(st, name) == load_hyperparameters(st, name) \in {None, EmptyDict}

\* create_study that never consults the store
create_study_always(st, name) == TRUE

\* create_study looking up the first model's record whatever its argument
create_study_first_key(st, name) == load_hyperparameters(st, models_to_optimize[1]) = None

\* create_study (lines 26-29): TRUE iff a fresh study is returned
create_study(st, name) == load_hyperparameters(st, name) = None

\* optimize_model returning the best-so-far parameters after a timeout
SearchValueKeepsPartial(how, n, name, c) ==
  IF how \in {"Completed", "TimedOut"} /\ n > 0 THEN Dict(name, c) ELSE None

\* what the try block of optimize_model yields (lines 52-66):
\* study.best_params raises ValueError when no trial completed, which the
\* generic handler turns into None
SearchValue(how, n, name, c) ==
  IF how = "Completed" /\ n > 0 THEN Dict(name, c) ELSE None

SearchOutcome(how, n) ==
  IF how = "Completed" /\ n = 0 THEN "Failed" ELSE how

\* the message optimize_model logs (lines 62, 65)
SearchLogs(how, n, name) ==
  IF SearchOutcome(how, n) = "Completed" THEN {} ELSE {<<"error", name>>}

\* line 50-51: the worker calls create_study
TaskCreateStudy(m) ==
  /\ pc = "pool" /\ tpc[m] = "submitted"
  /\ IF create_study(store, m)
       THEN /\ tpc' = [tpc EXCEPT ![m] = "running"]
            /\ study' = [study EXCEPT ![m] = TRUE]
       ELSE /\ tpc' = [tpc EXCEPT ![m] = "cached"]
            /\ UNCHANGED study
  /\ UNCHANGED <<store, store0, call, pc, trials, outcome, result, completed,
                 results, idx, params, logs, ret, prev>>
  /\ UNCHANGED <<bvars, cvars>>

\* one trial of study.optimize: the objective is invoked (line 56)
TaskTrial(m) ==
  /\ pc = "pool" /\ tpc[m] = "running"
  /\ trials[m] < MaxTrials
  /\ trials' = [trials EXCEPT ![m] = @ + 1]
  /\ UNCHANGED <<store, store0, call, pc, tpc, study, outcome, result, completed,
                 results, idx, params, logs, ret, prev>>
  /\ UNCHANGED <<bvars, cvars>>

\* a pool that cancels the remaining searches once one search has timed out
\* or raised: their tasks return None
TaskSearchEndsCancelling(m, how) ==
  /\ pc = "pool" /\ tpc[m] = "running"
  /\ tpc' = [tpc EXCEPT ![m] = "done"]
  /\ LET cancelled == \E o \in Models \ {m} : outcome[o] \in {"TimedOut", "Failed"}
         h == IF cancelled THEN "Failed" ELSE how
     IN /\ outcome' = [outcome EXCEPT ![m] = SearchOutcome(h, trials[m])]
        /\ result' = [result EXCEPT ![m] = <<m, SearchValue(h, trials[m], m, call)>>]
        /\ logs' = logs \cup SearchLogs(h, trials[m], m)
  /\ completed' = Append(completed, m)
  /\ UNCHANGED <<store, store0, call, pc, study, trials, results, idx, params,
                 ret, prev>>
  /\ UNCHANGED <<bvars, cvars>>

\* the search called directly, without run_with_timeout: it can end only by
\* itself, never by a timeout
TaskSearchEndsUnguarded(m, how) ==
  /\ how # "TimedOut"
  /\ pc = "pool" /\ tpc[m] = "running"
  /\ tpc' = [tpc EXCEPT ![m] = "done"]
  /\ outcome' = [outcome EXCEPT ![m] = SearchOutcome(how, trials[m])]
  /\ result' = [result EXCEPT ![m] = <<m, SearchValue(how, trials[m], m, call)>>]
  /\ logs' = logs \cup SearchLogs(how, trials[m], m)
  /\ completed' = Append(completed, m)
  /\ UNCHANGED <<store, store0, call, pc, study, trials, results, idx, params,
                 ret, prev>>
  /\ UNCHANGED <<bvars, cvars>>

\* lines 59-66: the guarded search ends (returns, times out, or raises)
TaskSearchEnds(m, how) ==
  /\ pc = "pool" /\ tpc[m] = "running"
  /\ tpc' = [tpc EXCEPT ![m] = "done"]
  /\ outcome' = [outcome EXCEPT ![m] = SearchOutcome(how, trials[m])]
  /\ result' = [result EXCEPT ![m] = <<m, SearchValue(how, trials[m], m, call)>>]
  /\ logs' = logs \cup SearchLogs(how, trials[m], m)
  /\ completed' = Append(completed, m)
  /\ UNCHANGED <<store, store0, call, pc, study, trials, results, idx, params,
                 ret, prev>>
  /\ UNCHANGED <<bvars, cvars>>

\* line 68: the cache-hit path
TaskCached(m) ==
  /\ pc = "pool" /\ tpc[m] = "cached"
  /\ tpc' = [tpc EXCEPT ![m] = "done"]
  /\ outcome' = [outcome EXCEPT ![m] = "Cached"]
  /\ result' = [result EXCEPT ![m] = <<m, load_hyperparameters(store, m)>>]
  /\ completed' = Append(completed, m)
  /\ UNCHANGED <<store, store0, call, pc, study, trials, results, idx, params,
                 logs, ret, prev>>
  /\ UNCHANGED <<bvars, cvars>>

\* --------------------------------------------------------- Orchestrator
\* proceeding as soon as one future is done
PoolJoinedAny(t) == \E m \in Models : t[m] = "done"

\* the with-block of the executor ends (and the pool is shut down) when
\* every task has finished
PoolJoined(t) == \A m \in Models : t[m] = "done"

\* collecting results as they complete
MapResultsAsCompleted(res, order) == [i \in 1..Len(order) |-> res[order[i]]]

\* list(executor.map(...)): results in submission order (lines 94-96)
MapResults(res, order) == [i \in 1..Len(models_to_optimize) |-> res[models_to_optimize[i]]]

Join ==
  /\ pc = "pool" /\ PoolJoined(tpc)
  /\ results' = MapResults(result, completed)
  /\ pc' = "merge" /\ idx' = 1
  /\ completed' = <<>>
  /\ UNCHANGED <<store, store0, call, tpc, study, trials, outcome, result,
                 params, logs, ret, prev>>
  /\ UNCHANGED <<bvars, cvars>>

\* line 100
Accepted(best_params) == best_params # None /\ IsDict(best_params)

\* lines 100-104: the value put in params[name]
Merged(st, best_params, name) ==
  IF Accepted(best_params) THEN best_params ELSE load_hyperparameters(st, name)

\* a merge that saves every accepted result under the first model's key
PersistWrongKey(st, best_params, name) ==
  IF best_params # None /\ IsDict(best_params)
    THEN save_hyperparameters(st, best_params, models_to_optimize[1]) ELSE st

\* a merge that forgets save_hyperparameters
PersistNothing(st, best_params, name) == st

\* lines 100-102: the store after the merge step
Persist(st, best_params, name) ==
  IF Accepted(best_params) THEN save_hyperparameters(st, best_params, name) ELSE st

\* a type check that only rejects None
InvalidOnlyNone(v) == v = None

\* a type check that lets None through to the second pass
InvalidOnlyStr(v) == v = Str

\* line 107
Invalid(v) == ~IsDict(v)

\* one iteration of the merge loop (lines 99-108)
MergeStep ==
  /\ pc = "merge"
  /\ LET name == results[idx][1]
         best_params == results[idx][2]
         v == Merged(store, best_params, name)
     IN /\ params' = [params EXCEPT ![name] = v]
        /\ store' = Persist(store, best_params, name)
        /\ IF Invalid(v)
             THEN pc' = "raised" /\ idx' = idx
             ELSE IF idx < Len(results)
                    THEN pc' = "merge" /\ idx' = idx + 1
                    ELSE pc' = "second" /\ idx' = 1
  /\ UNCHANGED <<store0, call, tpc, study, trials, outcome, result, completed,
                 results, logs, ret, prev>>
  /\ UNCHANGED <<bvars, cvars>>

\* one iteration of the second pass (lines 111-116); the last one returns
SecondPassStep ==
  /\ pc = "second"
  /\ LET name == expected_names[idx]
         p1 == IF params[name] = Missing \/ params[name] = None
                 THEN load_hyperparameters(store, name) ELSE params[name]
         p2 == IF p1 = None THEN EmptyDict ELSE p1
         np == [params EXCEPT ![name] = p2]
     IN /\ params' = np
        /\ logs' = IF p1 = None THEN logs \cup {<<"warning", name>>} ELSE logs
        /\ IF idx < Len(expected_names)
             THEN pc' = "second" /\ idx' = idx + 1 /\ UNCHANGED ret
             ELSE /\ pc' = "returned" /\ idx' = idx
                  /\ ret' = <<np["xgb"], np["rf"], np["stacking"], np["reg_stacking"]>>
  /\ UNCHANGED <<store, store0, call, tpc, study, trials, outcome, result,
                 completed, results, prev>>
  /\ UNCHANGED <<bvars, cvars>>

\* the caller, having received the tuple, calls optimize_hyperparameters again
\* (a ValueError is fatal for the caller: it does not call again)
NextCall ==
  /\ pc = "returned"
  /\ call < MaxCalls
  /\ call' = call + 1
  /\ store0' = store
  /\ prev' = [ret |-> ret, populated |-> \A m \in Models : IsDict(store0[m])]
  /\ pc' = "pool"
  /\ tpc' = [m \in Models |-> "submitted"]
  /\ study' = [m \in Models |-> FALSE]
  /\ trials' = [m \in Models |-> 0]
  /\ outcome' = [m \in Models |-> "none"]
  /\ result' = [m \in Models |-> <<m, None>>]
  /\ completed' = <<>>
  /\ results' = <<>>
  /\ idx' = 1
  /\ params' = [m \in Models |-> Missing]
  /\ logs' = {}
  /\ ret' = NoRet
  /\ UNCHANGED store
  /\ UNCHANGED <<bvars, cvars>>

\* no concurrent call has been made
ConcIdle ==
  /\ cstore = [m \in Models |-> None]
  /\ cpc = [c \in Calls |-> "idle"]
  /\ ctpc = [c \in Calls |-> [m \in Models |-> "submitted"]]
  /\ cresult = [c \in Calls |-> [m \in Models |-> <<m, None>>]]
  /\ cresults = [c \in Calls |-> <<>>]
  /\ cidx = [c \in Calls |-> 1]
  /\ cparams = [c \in Calls |-> [m \in Models |-> Missing]]
  /\ cret = [c \in Calls |-> NoRet]
  /\ cseen = [c \in Calls |-> [m \in Models |-> {}]]

\* records the store can hold for a model before the first call
StoredValues(m) == {None, Dict(m, 0), EmptyDict, Str}

NoBaseRet == [how |-> "none", value |-> None]

BaseIdle == bpc = "NotStarted" /\ btrials = <<>> /\ bret = NoBaseRet

Init ==
  /\ store \in {s \in [Models -> {None, Dict("xgb", 0), Dict("rf", 0), Dict("stacking", 0),
                                  Dict("reg_stacking", 0), EmptyDict, Str}] :
                  \A m \in Models : s[m] \in StoredValues(m)}
  /\ store0 = store
  /\ call = 1
  /\ pc = "pool"
  /\ tpc = [m \in Models |-> "submitted"]
  /\ study = [m \in Models |-> FALSE]
  /\ trials = [m \in Models |-> 0]
  /\ outcome = [m \in Models |-> "none"]
  /\ result = [m \in Models |-> <<m, None>>]
  /\ completed = <<>>
  /\ results = <<>>
  /\ idx = 1
  /\ params = [m \in Models |-> Missing]
  /\ logs = {}
  /\ ret = NoRet
  /\ prev = NoPrev
  /\ BaseIdle
  /\ ConcIdle

Next ==
  \/ \E m \in Models : TaskCreateStudy(m)
  \/ \E m \in Models : TaskTrial(m)
  \/ \E m \in Models : \E how \in {"Completed", "TimedOut", "Failed"} : TaskSearchEnds(m, how)
  \/ \E m \in Models : TaskCached(m)
  \/ Join
  \/ MergeStep
  \/ SecondPassStep
  \/ NextCall

Spec == Init /\ [][Next]_vars

\* =================================================================
\* Properties of optimize_hyperparameters (checked under Spec)
\* =================================================================
\* position of a model in the returned tuple (lines 117-121)
Pos(m) == CHOOSE i \in 1..Len(models_to_optimize) : models_to_optimize[i] = m
RetOf(m) == ret[Pos(m)]
AbsentOrMapping(st) == \A m \in Models : st[m] = None \/ IsDict(st[m])
\* the merge loop has handled position i without raising
MergedAt(i) == \/ pc \in {"second", "returned"}
               \/ pc \in {"merge", "raised"} /\ i < idx
\* the model whose merged value made the call raise
RaisedFor(m) == pc = "raised" /\ results[idx][1] = m

\* C1: whatever the task outcomes, and for every store whose records are
\* absent or mappings, the call never raises and returns a mapping for each
\* of the four models.
C1_AlwaysFourMappings ==
  AbsentOrMapping(store0) =>
    /\ pc # "raised"
    /\ pc = "returned" => \A i \in 1..4 : IsDict(ret[i])

\* C2: a model whose search timed out or failed and that has no stored
\* record does not make the call raise; the call returns {} for it and a
\* warning is logged for it.
C2_TimeoutDegradesToEmpty ==
  \A m \in Models :
    (store0[m] = None /\ outcome[m] \in {"TimedOut", "Failed"}) =>
      /\ ~RaisedFor(m)
      /\ pc = "returned" => (RetOf(m) = EmptyDict /\ <<"warning", m>> \in logs)

\* C3: a model that has a record in the store when the call starts gets no
\* study and no objective invocation during the call, and the entry returned
\* for it is the stored record.
C3_CacheSkip ==
  \A m \in Models :
    store0[m] # None =>
      /\ ~study[m]
      /\ trials[m] = 0
      /\ outcome[m] \in {"none", "Cached"}
      /\ pc = "returned" => RetOf(m) = store0[m]

C3_Witness ==
  /\ pc = "returned"
  /\ store0["xgb"] = Dict("xgb", 0) /\ store0["stacking"] = EmptyDict
  /\ study["rf"] /\ trials["rf"] > 0

\* C4 (as stated): once the call has ended, every task result that is a
\* non-null mapping is that model's entry of params and its store record.
\* Stated for the calls in which no search of a model without a stored
\* record timed out or failed, so that a call that raised did so for a
\* stored value that is not a mapping.
C4_EveryMappingResultSaved ==
  ( /\ pc \in {"returned", "raised"}
    /\ \A m \in Models : ~(store0[m] = None /\ outcome[m] \in {"TimedOut", "Failed"}) )
  => \A m \in Models :
       Accepted(result[m][2]) => (params[m] = result[m][2] /\ store[m] = result[m][2])

\* C4 (amended): every task result that is a non-null mapping and that the
\* merge loop has reached is that model's entry of params and its store
\* record; from an empty store with four successful searches the call
\* returns, the store holds four records and each returned entry equals the
\* stored record of its model.
C4_MergedMappingResultSaved ==
  /\ \A i \in 1..Len(results) :
       (MergedAt(i) /\ Accepted(results[i][2])) =>
         /\ params[results[i][1]] = results[i][2]
         /\ store[results[i][1]] = results[i][2]
  /\ ( /\ pc \in {"returned", "raised"}
       /\ \A m \in Models : store0[m] = None /\ outcome[m] = "Completed" )
     => /\ pc = "returned"
        /\ Cardinality({m \in Models : store[m] # None}) = 4
        /\ \A m \in Models : RetOf(m) = store[m] /\ store[m] = Dict(m, call)

C4_Witness ==
  /\ pc = "returned"
  /\ \A m \in Models : store0[m] = None /\ outcome[m] = "Completed"
  /\ \A m \in Models : store[m] = Dict(m, call)

\* C5: a call made right after a call that started with a mapping record for
\* all four models returns the same tuple as that call and creates no study
\* and invokes no objective.
C5_Idempotent ==
  (call >= 2 /\ prev.populated) =>
    /\ \A m \in Models : ~study[m] /\ trials[m] = 0
    /\ pc # "raised"
    /\ pc = "returned" => ret = prev.ret

C5_Witness ==
  /\ call = 2 /\ prev.populated /\ pc = "returned"
  /\ ret = <<Dict("xgb", 0), EmptyDict, Dict("stacking", 0), Dict("reg_stacking", 0)>>

\* C6: a merged value that is not a mapping makes the call raise at that
\* model, and a returned tuple holds mappings only.
C6_StructuralError ==
  /\ \A m \in Models :
       (params[m] # Missing /\ ~IsDict(params[m])) => RaisedFor(m)
  /\ pc = "returned" => \A i \in 1..4 : IsDict(ret[i])

C6_Witness ==
  /\ pc = "raised"
  /\ params[results[idx][1]] = Str
  /\ results[idx][2] = Str

\* C7: a task that ran a search returns its own identifier with the best
\* parameters when the search completed, and with None when the search timed
\* out or raised.
C7_TaskContainsFailures ==
  \A m \in Models :
    (tpc[m] = "done" /\ study[m]) =>
      /\ result[m][1] = m
      /\ outcome[m] \in {"Completed", "TimedOut", "Failed"}
      /\ outcome[m] = "Completed" => result[m][2] = Dict(m, call)
      /\ outcome[m] \in {"TimedOut", "Failed"} => result[m][2] = None

C7_Witness ==
  /\ outcome["xgb"] = "TimedOut" /\ trials["xgb"] > 0
  /\ outcome["rf"] = "Completed"
  /\ outcome["stacking"] = "Failed"

\* C8: a KeyboardInterrupt during the base search, even before any trial
\* completed, makes optimize_hyperparameters_base return the best parameters
\* found so far, never raise.  (checked under SpecBase)
C8_InterruptReturnsBest ==
  bret.how = "Interrupted" =>
    /\ bpc = "Returned"
    /\ IsDict(bret.value)

\* C9: each task result is merged under the identifier it was submitted
\* with, results are merged in submission order, and the returned tuple is
\* (xgb, rf, stacking, reg_stacking) with no entry produced for another model.
C9_SubmissionOrder ==
  /\ pc \in {"merge", "second", "returned", "raised"} =>
       \A i \in 1..4 : results[i] = result[models_to_optimize[i]]
                       /\ results[i][1] = models_to_optimize[i]
  /\ pc \in {"merge", "raised"} =>
       \A m \in Models : (params[m] # Missing) =>
                           Pos(m) <= idx /\ (pc = "merge" => Pos(m) < idx)
  /\ pc = "merge" => \A i \in 1..(idx - 1) : params[models_to_optimize[i]] # Missing
  /\ pc = "returned" =>
       \A m \in Models : /\ RetOf(m) = params[m]
                         /\ RetOf(m).owner \in {m, "-"}
                         /\ IsDict(result[m][2]) => RetOf(m) = result[m][2]

C9_Witness ==
  /\ pc = "returned"
  /\ ret = <<Dict("xgb", call), Dict("rf", 0), Dict("stacking", call), EmptyDict>>

\* C10: no merge step and no save_hyperparameters call happens while a task
\* is still running.
C10_MergeAfterJoin ==
  /\ [](pc \in {"merge", "second", "returned", "raised"} => \A m \in Models : tpc[m] = "done")
  /\ [][(store' # store \/ params' # params) =>
          ((\A m \in Models : tpc[m] = "done") \/ pc' = "pool")]_vars

C10_Witness ==
  /\ pc = "merge" /\ idx = 2
  /\ store # store0

\* C11: the four identifiers are handled by one task each; while the pool
\* runs no task writes the store, and every store read of a task (the cache
\* check of create_study, the load of the cache-hit path) is a read of the
\* record of that task's own identifier, so two tasks never touch one record.
C11_OneTaskPerRecord ==
  /\ [](/\ \A i, j \in 1..Len(models_to_optimize) :
             i # j => models_to_optimize[i] # models_to_optimize[j]
        /\ {models_to_optimize[i] : i \in 1..Len(models_to_optimize)} = Models
        /\ \A m \in Models : result[m][1] = m)
  /\ [][(pc = "pool" /\ pc' = "pool") =>
          /\ store' = store
          /\ \A m \in Models :
               /\ (tpc[m] = "submitted" /\ tpc'[m] # "submitted") =>
                    ((tpc'[m] = "running") <=> (store[m] = None))
               /\ (tpc[m] = "cached" /\ tpc'[m] = "done") =>
                    result'[m] = <<m, store[m]>>
               /\ (tpc'[m] # tpc[m]) =>
                    \A o \in Models \ {m} : tpc'[o] = tpc[o] /\ result'[o] = result[o]]_vars

C11_Witness ==
  /\ pc = "pool"
  /\ tpc["xgb"] = "running" /\ tpc["rf"] = "cached"
  /\ tpc["stacking"] = "done" /\ outcome["stacking"] = "Cached"
  /\ tpc["reg_stacking"] = "submitted"

\* the state of the study of a pooled task, and of the base study
PoolStudyState(m) ==
  IF tpc[m] = "submitted" THEN "NotStarted"
  ELSE IF tpc[m] = "running" THEN "Running"
  ELSE IF study[m] /\ tpc[m] = "done" THEN outcome[m] ELSE "NoStudy"
BaseStudyState == IF bpc \in {"Returned", "Raised"} THEN bret.how ELSE bpc
StudyTerminal == {"Completed", "TimedOut", "Interrupted", "Failed"}
StudyStep(a, b) ==
  \/ a = b
  \/ a = "NotStarted" /\ b \in {"Running", "NoStudy"}
  \/ a = "Running" /\ b \in StudyTerminal

\* C12: every study goes NotStarted -> Running -> one of Completed, TimedOut,
\* Interrupted, Failed and never leaves a terminal state; a study that ended
\* TimedOut or Failed yields None, and a study that ended Completed or
\* Interrupted yields a mapping.
C12_StudyLifecycle ==
  /\ [][/\ StudyStep(BaseStudyState, BaseStudyState')
        /\ call' = call => \A m \in Models : StudyStep(PoolStudyState(m), PoolStudyState(m)')]_vars
  /\ [](\A m \in Models :
          /\ PoolStudyState(m) \in {"TimedOut", "Failed"} => result[m][2] = None
          /\ PoolStudyState(m) = "Completed" => IsDict(result[m][2]))
  /\ [](bpc \in {"Returned", "Raised"} =>
          /\ bret.how \in {"Completed", "Interrupted"} => (bpc = "Returned" /\ IsDict(bret.value))
          /\ bret.how \in {"TimedOut", "Failed"} => bret.value = None)

\* what the task of m returns, from its own record, its own search ending
\* and nothing else
OwnResult(m) ==
  IF store0[m] # None THEN store0[m]
  ELSE IF outcome[m] = "Completed" THEN Dict(m, call) ELSE None

\* C13: no cross-task cancellation.  Whatever the other tasks did, a running
\* search can still end in each of the three ways, and the value a finished
\* task returned is determined by its own record and its own search ending.
C13_NoCrossTaskCancellation ==
  \A m \in Models :
    /\ (pc = "pool" /\ tpc[m] = "running") =>
         /\ \A how \in {"TimedOut", "Failed"} :
              ENABLED (TaskSearchEnds(m, how) /\ outcome'[m] = how /\ result'[m] = <<m, None>>)
         /\ trials[m] > 0 =>
              ENABLED (/\ TaskSearchEnds(m, "Completed")
                       /\ outcome'[m] = "Completed" /\ result'[m] = <<m, Dict(m, call)>>)
         /\ trials[m] < MaxTrials => ENABLED TaskTrial(m)
    /\ (pc = "pool" /\ tpc[m] = "submitted") => ENABLED TaskCreateStudy(m)
    /\ (pc = "pool" /\ tpc[m] = "cached") => ENABLED TaskCached(m)
    /\ tpc[m] = "done" => result[m] = <<m, OwnResult(m)>>

C13_Witness ==
  /\ completed = <<"xgb", "stacking", "rf", "reg_stacking">>
  /\ outcome["xgb"] = "TimedOut" /\ outcome["stacking"] = "Failed"
  /\ result["rf"] = <<"rf", Dict("rf", call)>>
  /\ result["reg_stacking"] = <<"reg_stacking", Dict("reg_stacking", call)>>

\* Scheduling: the worker threads and the calling thread keep running, and
\* the Timeout Guard ends every search that is still running.  Nothing makes
\* a search run a trial or end by itself, so a search may never finish, and
\* nothing makes the caller call again.
Fairness ==
  /\ \A m \in Models : /\ WF_vars(TaskCreateStudy(m))
                       /\ WF_vars(TaskCached(m))
                       /\ WF_vars(TaskSearchEnds(m, "TimedOut"))
  /\ WF_vars(Join)
  /\ WF_vars(MergeStep)
  /\ WF_vars(SecondPassStep)

\* the calls whose store holds, for each model, no record or a mapping
InitLive == Init /\ \A m \in Models : store[m] \in {None, Dict(m, 0)}

SpecLive == InitLive /\ [][Next]_vars /\ Fairness

\* C14: with a Timeout Guard that ends every search, every call of
\* optimize_hyperparameters eventually returns or raises.  (checked under
\* SpecLive)
C14_CallTerminates ==
  (pc \in {"pool", "merge", "second"}) ~> (pc \in {"returned", "raised"})

C14_Witness ==
  /\ pc = "raised" /\ results[idx][1] = "rf"
  /\ outcome["rf"] = "TimedOut" /\ trials["rf"] = 0
  /\ outcome["xgb"] = "Completed" /\ outcome["stacking"] = "Cached"

\* C15: when the second pass runs, params already holds a mapping for each
\* of the four identifiers; the second pass changes neither params, the store
\* nor the log (no reload takes effect, no warning, no {} substituted), and an
\* empty mapping in the returned tuple is one the task returned or the store
\* held.
C15_SecondPassIsNoOp ==
  /\ [](pc \in {"second", "returned"} => \A m \in Models : IsDict(params[m]))
  /\ [](\A m \in Models : <<"warning", m>> \notin logs)
  /\ [](pc = "returned" =>
          \A m \in Models :
            RetOf(m) = EmptyDict => (result[m][2] = EmptyDict \/ store0[m] = EmptyDict))
  /\ [][pc = "second" => (params' = params /\ store' = store /\ logs' = logs)]_vars

C15_Witness ==
  /\ pc = "returned"
  /\ RetOf("xgb") = EmptyDict /\ store0["xgb"] = EmptyDict
  /\ RetOf("rf") = Dict("rf", call)
  /\ logs = {}

\* C16 (as stated): when the call has raised ValueError at the k-th model the
\* store is not as it was before the call: every earlier model whose task
\* returned a non-null mapping has that mapping as its record, and no record
\* of the k-th or a later model has been written.  Stated for the calls in
\* which no search of a model without a stored record timed out or failed, so
\* that the call raised for a stored value that is not a mapping.
C16_StoreChangedOnAbort ==
  ( /\ pc = "raised"
    /\ \A m \in Models : ~(store0[m] = None /\ outcome[m] \in {"TimedOut", "Failed"}) )
  =>
    /\ store # store0
    /\ \A i \in 1..(idx - 1) :
         Accepted(results[i][2]) => store[results[i][1]] = results[i][2]
    /\ \A i \in idx..Len(results) : store[results[i][1]] = store0[results[i][1]]

\* C16 (amended): when the call has raised ValueError at the k-th model, every earlier
\* model whose task returned a non-null mapping has that mapping as its store
\* record, and the records of the k-th and of every later model are those
\* from before the call, even for a later model whose search succeeded; so the
\* store differs from the one before the call exactly when the search of an
\* earlier model succeeded.
C16_PartialSavesOnAbort ==
  pc = "raised" =>
    /\ \A i \in 1..(idx - 1) :
         Accepted(results[i][2]) => store[results[i][1]] = results[i][2]
    /\ \A i \in idx..Len(results) : store[results[i][1]] = store0[results[i][1]]
    /\ (store # store0) <=>
         (\E i \in 1..(idx - 1) : outcome[results[i][1]] = "Completed")

C16_Witness ==
  /\ pc = "raised" /\ idx = 3
  /\ store0["xgb"] = None /\ store["xgb"] = Dict("xgb", call)
  /\ store["rf"] = Dict("rf", 0)
  /\ outcome["reg_stacking"] = "Completed" /\ store["reg_stacking"] = None

PopulatedStore(st) == \A m \in Models : IsDict(st[m])

\* C17: a call that starts with a mapping record for all four models never
\* changes the store: every merge step accepts the value the task loaded for
\* its own model, which is the stored record, and saving it leaves the store
\* as it is; the call does not raise.
C17_PopulatedStoreUnchanged ==
  /\ [](PopulatedStore(store0) =>
          /\ store = store0
          /\ pc # "raised"
          /\ pc \in {"merge", "second", "returned"} =>
               \A i \in 1..Len(results) :
                 /\ Accepted(results[i][2])
                 /\ results[i] = <<models_to_optimize[i], store0[models_to_optimize[i]]>>)
  /\ [][(PopulatedStore(store0) /\ pc = "merge") =>
          /\ Persist(store, results[idx][2], results[idx][1]) = store
          /\ store' = store]_vars

C17_Witness ==
  /\ pc = "returned" /\ call = 1
  /\ PopulatedStore(store0)
  /\ store["rf"] = EmptyDict /\ store["xgb"] = Dict("xgb", 0)

\* -------------------------------------------------- Base-Model Optimizer
RECURSIVE BestIndex(_, _)
\* study.best_trial: the completed trial with the lowest score
\* (direction='minimize'), the earliest one on ties; scores has n >= 1 entries
BestIndex(scores, n) ==
  IF n = 1 THEN 1
  ELSE LET b == BestIndex(scores, n - 1)
       IN IF scores[n] < scores[b] THEN n ELSE b

\* study.best_params (lines 151-155): ValueError when no trial completed
BestParams(scores) ==
  IF Len(scores) = 0 THEN None ELSE Dict("base", BestIndex(scores, Len(scores)))

\* lines 138-143: the study is created and study.optimize is entered
BaseStart ==
  /\ bpc = "NotStarted"
  /\ bpc' = "Running"
  /\ UNCHANGED <<btrials, bret>>
  /\ UNCHANGED <<ovars, cvars>>

\* one trial of the base study completes with a score
BaseTrial(s) ==
  /\ bpc = "Running"
  /\ Len(btrials) < MaxBaseTrials
  /\ btrials' = Append(btrials, s)
  /\ UNCHANGED <<bpc, bret>>
  /\ UNCHANGED <<ovars, cvars>>

\* study.optimize returns: n_trials done or its timeout elapsed (lines 143-147)
BaseOptimizeReturns ==
  /\ bpc = "Running"
  /\ bpc' = "Completed"
  /\ UNCHANGED <<btrials, bret>>
  /\ UNCHANGED <<ovars, cvars>>

\* lines 148-149: KeyboardInterrupt is caught and logged
BaseInterrupt ==
  /\ bpc = "Running"
  /\ bpc' = "Interrupted"
  /\ UNCHANGED <<btrials, bret>>
  /\ UNCHANGED <<ovars, cvars>>

\* any other exception of the search is not caught: the call raises
BaseSearchRaises ==
  /\ bpc = "Running"
  /\ bpc' = "Failed"
  /\ UNCHANGED <<btrials, bret>>
  /\ UNCHANGED <<ovars, cvars>>

\* what lines 151-155 do once the try statement is left normally
BaseExit(scores) == IF BestParams(scores) = None THEN "Raised" ELSE "Returned"

\* lines 151-155: log best trial, value and params, return study.best_params
BaseReport ==
  /\ bpc \in {"Completed", "Interrupted"}
  /\ bpc' = BaseExit(btrials)
  /\ bret' = [how |-> bpc, value |-> BestParams(btrials)]
  /\ UNCHANGED btrials
  /\ UNCHANGED <<ovars, cvars>>

InitBase ==
  /\ store = [m \in Models |-> None]
  /\ store0 = store
  /\ call = 1
  /\ pc = "pool"
  /\ tpc = [m \in Models |-> "submitted"]
  /\ study = [m \in Models |-> FALSE]
  /\ trials = [m \in Models |-> 0]
  /\ outcome = [m \in Models |-> "none"]
  /\ result = [m \in Models |-> <<m, None>>]
  /\ completed = <<>>
  /\ results = <<>>
  /\ idx = 1
  /\ params = [m \in Models |-> Missing]
  /\ logs = {}
  /\ ret = NoRet
  /\ prev = NoPrev
  /\ BaseIdle
  /\ ConcIdle

NextBase ==
  \/ BaseStart
  \/ \E s \in 1..MaxScore : BaseTrial(s)
  \/ BaseOptimizeReturns
  \/ BaseInterrupt
  \/ BaseSearchRaises
  \/ BaseReport

SpecBase == InitBase /\ [][NextBase]_vars


\* ------------------------------------------- two concurrent Orchestrator calls
\* bound on the number of models without a record when the two calls start
MaxAbsent == 1

\* lines 50-51 in call c: the cache check reads the shared store
ConcCreateStudy(c, m) ==
  /\ cpc[c] = "pool" /\ ctpc[c][m] = "submitted"
  /\ ctpc' = [ctpc EXCEPT ![c][m] = IF create_study(cstore, m) THEN "running" ELSE "cached"]
  /\ cseen' = [cseen EXCEPT ![c][m] = @ \cup {load_hyperparameters(cstore, m)}]
  /\ UNCHANGED <<cstore, cpc, cresult, cresults, cidx, cparams, cret>>
  /\ UNCHANGED <<ovars, bvars>>

\* lines 59-66 in call c: the guarded search ends after n trials
ConcSearchEnds(c, m, how, n) ==
  /\ cpc[c] = "pool" /\ ctpc[c][m] = "running"
  /\ ctpc' = [ctpc EXCEPT ![c][m] = "done"]
  /\ cresult' = [cresult EXCEPT ![c][m] = <<m, SearchValue(how, n, m, c)>>]
  /\ UNCHANGED <<cstore, cpc, cresults, cidx, cparams, cret, cseen>>
  /\ UNCHANGED <<ovars, bvars>>

\* line 68 in call c: the cache-hit path reads the shared store again
ConcCached(c, m) ==
  /\ cpc[c] = "pool" /\ ctpc[c][m] = "cached"
  /\ ctpc' = [ctpc EXCEPT ![c][m] = "done"]
  /\ cresult' = [cresult EXCEPT ![c][m] = <<m, load_hyperparameters(cstore, m)>>]
  /\ cseen' = [cseen EXCEPT ![c][m] = @ \cup {load_hyperparameters(cstore, m)}]
  /\ UNCHANGED <<cstore, cpc, cresults, cidx, cparams, cret>>
  /\ UNCHANGED <<ovars, bvars>>

\* lines 93-98 in call c
ConcJoin(c) ==
  /\ cpc[c] = "pool" /\ PoolJoined(ctpc[c])
  /\ cresults' = [cresults EXCEPT ![c] = MapResults(cresult[c], <<>>)]
  /\ cpc' = [cpc EXCEPT ![c] = "merge"]
  /\ cidx' = [cidx EXCEPT ![c] = 1]
  /\ UNCHANGED <<cstore, ctpc, cresult, cparams, cret, cseen>>
  /\ UNCHANGED <<ovars, bvars>>

\* lines 99-108 in call c: one iteration of the merge loop on the shared store
ConcMergeStep(c) ==
  /\ cpc[c] = "merge"
  /\ LET name == cresults[c][cidx[c]][1]
         best_params == cresults[c][cidx[c]][2]
         v == Merged(cstore, best_params, name)
     IN /\ cparams' = [cparams EXCEPT ![c][name] = v]
        /\ cstore' = Persist(cstore, best_params, name)
        /\ cseen' = IF Accepted(best_params) THEN cseen
                    ELSE [cseen EXCEPT ![c][name] = @ \cup {load_hyperparameters(cstore, name)}]
        /\ IF Invalid(v)
             THEN cpc' = [cpc EXCEPT ![c] = "raised"] /\ UNCHANGED cidx
             ELSE IF cidx[c] < Len(cresults[c])
                    THEN cidx' = [cidx EXCEPT ![c] = @ + 1] /\ UNCHANGED cpc
                    ELSE cidx' = [cidx EXCEPT ![c] = 1] /\ cpc' = [cpc EXCEPT ![c] = "second"]
  /\ UNCHANGED <<ctpc, cresult, cresults, cret>>
  /\ UNCHANGED <<ovars, bvars>>

\* lines 111-121 in call c: one iteration of the second pass; the last returns
ConcSecondPassStep(c) ==
  /\ cpc[c] = "second"
  /\ LET name == expected_names[cidx[c]]
         reload == cparams[c][name] = Missing \/ cparams[c][name] = None
         p1 == IF reload THEN load_hyperparameters(cstore, name) ELSE cparams[c][name]
         p2 == IF p1 = None THEN EmptyDict ELSE p1
         np == [cparams[c] EXCEPT ![name] = p2]
     IN /\ cparams' = [cparams EXCEPT ![c] = np]
        /\ cseen' = IF reload
                      THEN [cseen EXCEPT ![c][name] = @ \cup {load_hyperparameters(cstore, name)}]
                      ELSE cseen
        /\ IF cidx[c] < Len(expected_names)
             THEN cidx' = [cidx EXCEPT ![c] = @ + 1] /\ UNCHANGED <<cpc, cret>>
             ELSE /\ cpc' = [cpc EXCEPT ![c] = "returned"]
                  /\ cret' = [cret EXCEPT ![c] =
                                <<np["xgb"], np["rf"], np["stacking"], np["reg_stacking"]>>]
                  /\ UNCHANGED cidx
  /\ UNCHANGED <<cstore, ctpc, cresult, cresults>>
  /\ UNCHANGED <<ovars, bvars>>

\* both calls have been made; between one and MaxAbsent models have no
\* record, the others a mapping
InitConc ==
  /\ store = [m \in Models |-> None]
  /\ store0 = store
  /\ call = 1
  /\ pc = "pool"
  /\ tpc = [m \in Models |-> "submitted"]
  /\ study = [m \in Models |-> FALSE]
  /\ trials = [m \in Models |-> 0]
  /\ outcome = [m \in Models |-> "none"]
  /\ result = [m \in Models |-> <<m, None>>]
  /\ completed = <<>>
  /\ results = <<>>
  /\ idx = 1
  /\ params = [m \in Models |-> Missing]
  /\ logs = {}
  /\ ret = NoRet
  /\ prev = NoPrev
  /\ BaseIdle
  /\ cstore \in {s \in [Models -> {None, Dict("xgb", 0), Dict("rf", 0), Dict("stacking", 0),
                                   Dict("reg_stacking", 0)}] :
                   /\ \A m \in Models : s[m] \in {None, Dict(m, 0)}
                   /\ Cardinality({m \in Models : s[m] = None}) \in 1..MaxAbsent}
  /\ cpc = [c \in Calls |-> "pool"]
  /\ ctpc = [c \in Calls |-> [m \in Models |-> "submitted"]]
  /\ cresult = [c \in Calls |-> [m \in Models |-> <<m, None>>]]
  /\ cresults = [c \in Calls |-> <<>>]
  /\ cidx = [c \in Calls |-> 1]
  /\ cparams = [c \in Calls |-> [m \in Models |-> Missing]]
  /\ cret = [c \in Calls |-> NoRet]
  /\ cseen = [c \in Calls |-> [m \in Models |-> {}]]

NextConc ==
  \/ \E c \in Calls, m \in Models : ConcCreateStudy(c, m)
  \/ \E c \in Calls, m \in Models :
       \E how \in {"Completed", "TimedOut", "Failed"}, n \in 0..MaxTrials :
         ConcSearchEnds(c, m, how, n)
  \/ \E c \in Calls, m \in Models : ConcCached(c, m)
  \/ \E c \in Calls : ConcJoin(c)
  \/ \E c \in Calls : ConcMergeStep(c)
  \/ \E c \in Calls : ConcSecondPassStep(c)

SpecConc == InitConc /\ [][NextConc]_vars

\* Properties of two concurrent calls (checked under SpecConc)
ConcFinal == \A c \in Calls : cpc[c] \in {"returned", "raised"}
\* m had no record when the two calls started (a record from before the
\* calls is never replaced: both calls take the cache-hit path for it)
AbsentAtStart(m) == cstore[m] # Dict(m, 0)
\* call c has executed save_hyperparameters for m
ConcSaved(c, m) ==
  /\ \/ cpc[c] \in {"second", "returned"}
     \/ cpc[c] \in {"merge", "raised"} /\ Pos(m) < cidx[c]
  /\ Accepted(cresults[c][Pos(m)][2])
\* what a call that returned holds for m: the mapping its own search
\* produced, or a mapping it read from the store
ConcReturnedOwnOrRead(c, m) ==
  LET r == cret[c][Pos(m)]
  IN \/ r = Dict(m, c) /\ cresult[c][m][2] = Dict(m, c)
     \/ IsDict(r) /\ r \in cseen[c][m]

====
